---- MODULE Spec2Model ----
(***************************************************************************)
(* Model of the two notebooks of nyu-curp-2021.                            *)
(*                                                                         *)
(*  - the linear regression notebook: the cell that builds the augmented  *)
(*    design matrix X = [x, 1], the closed-form cell                       *)
(*        theta = matmul(inv(matmul(X.T, X)), matmul(X.T, y))              *)
(*    evaluated one call at a time in Python's order (arguments left to    *)
(*    right), and the LinearRegression fit / predict cells;                *)
(*  - the 311 notebook: the cell that loads the tab-separated file into a  *)
(*    dictionary of column lists.                                          *)
(*                                                                         *)
(* Numbers are exact rationals <<num, den>> in lowest terms (den > 0):     *)
(* the rounding of IEEE doubles is not modelled.                           *)
(***************************************************************************)
EXTENDS Integers, Sequences, FiniteSets, TLC

\* ------------------------------------------------------------------ bounds
\* longest input vector x (and y)
MaxN == 3
\* inputs x_i are drawn from 0..MaxX
MaxX == 1
\* targets y_i are drawn from 0..MaxY
MaxY == 1
\* longest vector of new inputs handed to predict
MaxNew == 1
\* most columns of the tab-separated file
MaxCols == 2
\* most data lines of the tab-separated file
MaxRows == 2
\* most values of 'Complaint Type' in a file
MaxComplaints == 6
\* longest input vector of each of two concurrent fits
MaxN2 == 2

\* ------------------------------------------------------- exact arithmetic
Abs(a) == IF a < 0 THEN -a ELSE a

RECURSIVE GCD(_, _)
GCD(a, b) == IF b = 0 THEN a ELSE GCD(b, a % b)

\* the rational n/d in lowest terms with a positive denominator (d # 0)
Rat(n, d) ==
  LET s == IF d < 0 THEN -1 ELSE 1
      g == GCD(Abs(n), Abs(d))
  IN  << (s * n) \div g, (s * d) \div g >>

RInt(n) == << n, 1 >>
RAdd(p, q) == Rat(p[1] * q[2] + q[1] * p[2], p[2] * q[2])
RSub(p, q) == Rat(p[1] * q[2] - q[1] * p[2], p[2] * q[2])
RMul(p, q) == Rat(p[1] * q[1], p[2] * q[2])
RDiv(p, q) == Rat(p[1] * q[2], p[2] * q[1])
RLeq(p, q) == p[1] * q[2] <= q[1] * p[2]

RECURSIVE SumSeq(_)
SumSeq(s) == IF s = << >> THEN 0 ELSE Head(s) + SumSeq(Tail(s))

RECURSIVE RSumSeq(_)
RSumSeq(s) == IF s = << >> THEN RInt(0) ELSE RAdd(Head(s), RSumSeq(Tail(s)))

\* ----------------------------------------------------------------- numpy
\* An array: the sequence s with its entries computed once (a function
\* constructor alone is evaluated again at every use of an entry).
Array(s) == s \o << >>

\* A matrix is the sequence of its rows; Rows x Cols is its shape.
Rows(M) == Len(M)
Cols(M) == Len(M[1])

\* M.T
Transpose(M) ==
  Array([j \in 1..Cols(M) |-> Array([i \in 1..Rows(M) |-> M[i][j]])])

\* np.matmul raises ValueError unless the inner dimensions agree
MatMulDefined(P, Q) == Cols(P) = Rows(Q)

\* a product whose inner sums count their first term twice
MatMulFirstTwice(P, Q) ==
  Array([i \in 1..Rows(P) |-> Array([j \in 1..Cols(Q) |->
      P[i][1] * Q[1][j] + SumSeq([k \in 1..Cols(P) |-> P[i][k] * Q[k][j]])])])

\* np.matmul of two integer matrices
MatMul(P, Q) ==
  Array([i \in 1..Rows(P) |-> Array([j \in 1..Cols(Q) |->
      SumSeq([k \in 1..Cols(P) |-> P[i][k] * Q[k][j]])])])

\* np.matmul of a rational matrix and an integer matrix
MatMulR(P, Q) ==
  Array([i \in 1..Rows(P) |-> Array([j \in 1..Cols(Q) |->
      RSumSeq([k \in 1..Cols(P) |-> RMul(P[i][k], RInt(Q[k][j]))])])])

\* np.matmul of an integer matrix and a rational matrix
MatMulIR(P, Q) ==
  Array([i \in 1..Rows(P) |-> Array([j \in 1..Cols(Q) |->
      RSumSeq([k \in 1..Cols(P) |-> RMul(RInt(P[i][k]), Q[k][j])])])])

\* an integer matrix as a rational one
AsRat(M) ==
  Array([i \in 1..Rows(M) |-> Array([j \in 1..Cols(M) |-> RInt(M[i][j])])])

\* a determinant with its two products the wrong way round
DetSwapped(M) == M[1][2] * M[2][1] - M[1][1] * M[2][2]

\* determinant of a 2 x 2 matrix
Det(M) == M[1][1] * M[2][2] - M[1][2] * M[2][1]

\* a singularity test that looks at the first pivot only
SingularFirstPivot(M) == M[1][1] = 0

\* np.linalg.inv raises LinAlgError("Singular matrix") on a singular matrix
Singular(M) == Det(M) = 0

\* an inverse whose adjugate keeps the sign of the off-diagonal entries
InvUnsigned(M) ==
  LET d == Det(M)
  IN  << << Rat(M[2][2], d), Rat(M[1][2], d) >>,
         << Rat(M[2][1], d), Rat(M[1][1], d) >> >>

\* np.linalg.inv of a non-singular 2 x 2 integer matrix
Inv(M) ==
  LET d == Det(M)
  IN  << << Rat(M[2][2], d), Rat(-M[1][2], d) >>,
         << Rat(-M[2][1], d), Rat(M[1][1], d) >> >>

\* a design matrix with the column of ones first
AugmentBiasFirst(v) == Array([i \in 1..Len(v) |-> << 1, v[i] >>])

\* np.concatenate([np.expand_dims(x, -1), np.ones((n, 1))], axis=-1)
Augment(v) == Array([i \in 1..Len(v) |-> << v[i], 1 >>])

\* np.expand_dims(v, axis=-1): a vector as a column
ExpandDims(v) == Array([i \in 1..Len(v) |-> << v[i] >>])

\* the whole closed-form expression of the theta cell, for a design matrix M
\* with an invertible Gram matrix and a target column t of as many rows
NormalEquations(M, t) ==
  MatMulR(Inv(MatMul(Transpose(M), M)), MatMul(Transpose(M), t))

\* ---------------------------------------------------------------- sklearn
\* LinearRegression.fit(expand_dims(u, -1), v) refuses inputs of different
\* lengths (ValueError: inconsistent numbers of samples)
SkFitDefined(u, v) == Len(u) = Len(v)

Sxx(u) ==
  Len(u) * SumSeq([i \in 1..Len(u) |-> u[i] * u[i]]) - SumSeq(u) * SumSeq(u)

Sxy(u, v) ==
  Len(u) * SumSeq([i \in 1..Len(u) |-> u[i] * v[i]]) - SumSeq(u) * SumSeq(v)

\* coef_ of the least-squares line through the centred data (the least-norm
\* solution, 0, when all inputs are equal)
SkCoef(u, v) == IF Sxx(u) = 0 THEN RInt(0) ELSE Rat(Sxy(u, v), Sxx(u))

\* intercept_ = mean(v) - mean(u) * coef_
SkIntercept(u, v) ==
  RSub(Rat(SumSeq(v), Len(u)), RMul(Rat(SumSeq(u), Len(u)), SkCoef(u, v)))

\* ----------------------------------------------------------- python str
\* A string is the sequence of its characters.
TAB == "\t"
NL == "\n"

\* the characters str.strip() removes
IsSpace(ch) == ch \in {" ", TAB, NL}

RECURSIVE LStrip(_)
LStrip(s) == IF s # << >> /\ IsSpace(Head(s)) THEN LStrip(Tail(s)) ELSE s

RECURSIVE RStrip(_)
RStrip(s) ==
  IF s # << >> /\ IsSpace(s[Len(s)]) THEN RStrip(SubSeq(s, 1, Len(s) - 1)) ELSE s

\* line.strip()
Strip(s) == RStrip(LStrip(s))

\* s.split('\t'): the pieces between the tabs, one piece more than tabs
RECURSIVE Split(_)
Split(s) ==
  IF \A p \in 1..Len(s) : s[p] # TAB
    THEN << s >>
    ELSE LET p == CHOOSE q \in 1..Len(s) :
                    s[q] = TAB /\ \A r \in 1..(q - 1) : s[r] # TAB
         IN  << SubSeq(s, 1, p - 1) >> \o Split(SubSeq(s, p + 1, Len(s)))

\* s.split(sep): the pieces between the separators
RECURSIVE SplitOn(_, _)
SplitOn(s, sep) ==
  IF \A p \in 1..Len(s) : s[p] # sep
    THEN << s >>
    ELSE LET p == CHOOSE q \in 1..Len(s) :
                    s[q] = sep /\ \A r \in 1..(q - 1) : s[r] # sep
         IN  << SubSeq(s, 1, p - 1) >> \o SplitOn(SubSeq(s, p + 1, Len(s)), sep)

\* s.split(): the pieces between runs of white space, none of them empty
RECURSIVE SplitWs(_)
SplitWs(s) ==
  LET t == LStrip(s)
  IN  IF t = << >>
        THEN << >>
        ELSE IF \A p \in 1..Len(t) : ~IsSpace(t[p])
          THEN << t >>
          ELSE LET p == CHOOSE q \in 1..Len(t) :
                          IsSpace(t[q]) /\ \A r \in 1..(q - 1) : ~IsSpace(t[r])
               IN  << SubSeq(t, 1, p - 1) >> \o SplitWs(SubSeq(t, p + 1, Len(t)))

\* the decimal digits
DigitChars == << "0", "1", "2", "3", "4", "5", "6", "7", "8", "9" >>

\* the value of a digit
DigitValue(ch) == CHOOSE d \in 0..9 : DigitChars[d + 1] = ch

\* int(s) of a string of decimal digits
RECURSIVE IntOf(_)
IntOf(s) ==
  IF s = << >> THEN 0
  ELSE 10 * IntOf(SubSeq(s, 1, Len(s) - 1)) + DigitValue(s[Len(s)])

\* for key, value in zip(h, l): d[key].append(value), from pair k on
RECURSIVE AppendZip(_, _, _, _)
AppendZip(d, h, l, k) ==
  IF k > Len(h) \/ k > Len(l)
    THEN d
    ELSE AppendZip([d EXCEPT ![h[k]] = Append(@, l[k])], h, l, k + 1)

\* ------------------------------------------------------------------ state
VARIABLES
  x,           \* the inputs, a vector
  y,           \* the targets: a vector, and a column once the X cell has run
  X,           \* the augmented design matrix
  A,           \* np.matmul(X.T, X), the Gram matrix
  Ainv,        \* np.linalg.inv(A)
  b,           \* np.matmul(X.T, y)
  theta,       \* the fitted parameters, a 2 x 1 column of rationals
  pc,          \* where the evaluation of the closed-form cell stands
  coef_,       \* model.coef_
  intercept_,  \* model.intercept_
  mpc,         \* the LinearRegression object: "new", "fitted", "ValueError"
  x_new,       \* the inputs of the last model.predict
  y_pred,      \* the output of the last model.predict
  lines,       \* fp.readlines(): the lines of the 311 file, each with its "\n"
  lineno,      \* i of the loading loop: how many lines it has processed
  header,      \* the column names, from the first line
  data,        \* the dictionary of column lists
  qpc,         \* the cell of the 311 questions that is running, or "idle"
  idx,         \* how many entries the loop of that cell has processed
  last_day,    \* the highest day of 'Created Date' seen
  complaint_counts,  \* dict: the (type, count) pairs in insertion order
  top_complaints,    \* dict: the pairs sorted by count
  printed,     \* the (type, count) lines the top-complaints cell printed
  days_open,   \* the list of the days each closed request was open
  weird_indexes,     \* dict: the (index, diff) pairs in insertion order
  x2, y2, X2,  \* the inputs of a second closed-form fit
  A2, Ainv2, b2,     \* its temporaries
  theta2,      \* its result
  pc2          \* where its evaluation stands

vars ==
  << x, y, X, A, Ainv, b, theta, pc, coef_, intercept_, mpc, x_new, y_pred,
     lines, lineno, header, data,
     qpc, idx, last_day, complaint_counts, top_complaints, printed,
     days_open, weird_indexes,
     x2, y2, X2, A2, Ainv2, b2, theta2, pc2 >>

\* the numpy arrays of the closed-form cell and the sklearn model
fitVars == << X, A, Ainv, b, theta, pc >>
skVars == << coef_, intercept_, mpc, x_new, y_pred >>
\* the 311 notebook
loadVars == << lines, lineno, header, data >>
\* the cells that answer the questions about the 311 data
queryVars ==
  << qpc, idx, last_day, complaint_counts, top_complaints, printed,
     days_open, weird_indexes >>
\* the second closed-form fit
fit2Vars == << x2, y2, X2, A2, Ainv2, b2, theta2, pc2 >>

None == << >>

\* no cell of the 311 questions has run
QueryIdle ==
  /\ qpc = "idle" /\ idx = 0 /\ last_day = None
  /\ complaint_counts = None /\ top_complaints = None /\ printed = None
  /\ days_open = None /\ weird_indexes = None

\* there is no second fit
Fit2Idle ==
  /\ x2 = None /\ y2 = None /\ X2 = None
  /\ A2 = None /\ Ainv2 = None /\ b2 = None /\ theta2 = None
  /\ pc2 = "idle"

\* the vectors of 1..maxlen entries drawn from 0..maxval
Vecs(maxlen, maxval) == UNION { [1..n -> 0..maxval] : n \in 1..maxlen }

\* a prediction that leaves out the intercept
SkPredictNoIntercept(v) == [i \in 1..Len(v) |-> RMul(RInt(v[i]), coef_[1])]

\* model.predict(np.expand_dims(v, -1)): one prediction per input
SkPredict(v) == [i \in 1..Len(v) |-> RAdd(RMul(RInt(v[i]), coef_[1]), intercept_)]

\* a theta computed without the inversion
ThetaNoInverse == MatMulR(AsRat(A), b)

\* a theta added to the one of the previous run
ThetaAccumulated ==
  IF theta = None
    THEN MatMulR(Ainv, b)
    ELSE Array([i \in 1..Len(theta) |->
           << RAdd(theta[i][1], MatMulR(Ainv, b)[i][1]) >>])

\* the value the closed-form cell assigns to theta
ThetaValue == MatMulR(Ainv, b)

\* y as a vector again (the data cell of the noisy fit rebuilds it as one)
y_obs == [i \in 1..Len(y) |-> y[i][1]]

Init ==
  /\ x \in Vecs(MaxN, MaxX)
  /\ y \in Vecs(MaxN, MaxY)
  /\ X = None /\ A = None /\ Ainv = None /\ b = None /\ theta = None
  /\ pc = "data"
  /\ coef_ = None /\ intercept_ = None /\ mpc = "new"
  /\ x_new = None /\ y_pred = None
  /\ lines = None /\ lineno = 0 /\ header = None /\ data = None
  /\ QueryIdle
  /\ Fit2Idle

\* X = np.concatenate([expand_dims(x), ones]); y = np.expand_dims(y, -1)
BuildXY ==
  /\ pc = "data"
  /\ X' = Augment(x)
  /\ y' = ExpandDims(y)
  /\ pc' = "built"
  /\ UNCHANGED << x, A, Ainv, b, theta >>
  /\ UNCHANGED skVars
  /\ UNCHANGED loadVars
  /\ UNCHANGED queryVars
  /\ UNCHANGED fit2Vars

\* np.matmul(X.T, X): the first call the theta cell evaluates
Gram ==
  /\ pc = "built"
  /\ A' = MatMul(Transpose(X), X)
  /\ pc' = "gram"
  /\ UNCHANGED << x, y, X, Ainv, b, theta >>
  /\ UNCHANGED skVars
  /\ UNCHANGED loadVars
  /\ UNCHANGED queryVars
  /\ UNCHANGED fit2Vars

\* np.linalg.inv(A): raises on a singular matrix, and the cell stops
Invert ==
  /\ pc = "gram"
  /\ IF Singular(A)
       THEN pc' = "LinAlgError" /\ Ainv' = Ainv
       ELSE pc' = "inv" /\ Ainv' = Inv(A)
  /\ UNCHANGED << x, y, X, A, b, theta >>
  /\ UNCHANGED skVars
  /\ UNCHANGED loadVars
  /\ UNCHANGED queryVars
  /\ UNCHANGED fit2Vars

\* a product X.T y that is written into y
XtYOverwritesY ==
  /\ pc = "inv"
  /\ IF MatMulDefined(Transpose(X), y)
       THEN /\ pc' = "xty"
            /\ b' = MatMul(Transpose(X), y)
            /\ y' = MatMul(Transpose(X), y)
       ELSE pc' = "ValueError" /\ b' = b /\ y' = y
  /\ UNCHANGED << x, X, A, Ainv, theta >>
  /\ UNCHANGED skVars
  /\ UNCHANGED loadVars
  /\ UNCHANGED queryVars
  /\ UNCHANGED fit2Vars

\* np.matmul(X.T, y): raises when y has not as many rows as X
XtY ==
  /\ pc = "inv"
  /\ IF MatMulDefined(Transpose(X), y)
       THEN pc' = "xty" /\ b' = MatMul(Transpose(X), y)
       ELSE pc' = "ValueError" /\ b' = b
  /\ UNCHANGED << x, y, X, A, Ainv, theta >>
  /\ UNCHANGED skVars
  /\ UNCHANGED loadVars
  /\ UNCHANGED queryVars
  /\ UNCHANGED fit2Vars

\* theta = np.matmul(Ainv, b)
Theta ==
  /\ pc = "xty"
  /\ theta' = ThetaValue
  /\ pc' = "done"
  /\ UNCHANGED << x, y, X, A, Ainv, b >>
  /\ UNCHANGED skVars
  /\ UNCHANGED loadVars
  /\ UNCHANGED queryVars
  /\ UNCHANGED fit2Vars

\* the theta cell is run again on the same X and y: its temporaries are
\* new, the global theta still holds the previous result
Rerun ==
  /\ pc = "done"
  /\ mpc = "new"
  /\ pc' = "built"
  /\ A' = None /\ Ainv' = None /\ b' = None
  /\ UNCHANGED << x, y, X, theta >>
  /\ UNCHANGED skVars
  /\ UNCHANGED loadVars
  /\ UNCHANGED queryVars
  /\ UNCHANGED fit2Vars

\* model = LinearRegression(); model.fit(np.expand_dims(x, -1), y_obs)
SkFit ==
  /\ pc \in {"done", "LinAlgError", "ValueError"}
  /\ mpc = "new"
  /\ IF SkFitDefined(x, y_obs)
       THEN /\ mpc' = "fitted"
            /\ coef_' = << SkCoef(x, y_obs) >>
            /\ intercept_' = SkIntercept(x, y_obs)
       ELSE /\ mpc' = "ValueError"
            /\ UNCHANGED << coef_, intercept_ >>
  /\ UNCHANGED << x, y, x_new, y_pred >>
  /\ UNCHANGED fitVars
  /\ UNCHANGED loadVars
  /\ UNCHANGED queryVars
  /\ UNCHANGED fit2Vars

\* y_pred = model.predict(np.expand_dims(v, -1)), on the training inputs or
\* on new ones
Predict ==
  /\ mpc = "fitted"
  /\ \E v \in {x} \cup Vecs(MaxNew, MaxX) :
       /\ x_new' = v
       /\ y_pred' = SkPredict(v)
  /\ UNCHANGED << x, y, coef_, intercept_, mpc >>
  /\ UNCHANGED fitVars
  /\ UNCHANGED loadVars
  /\ UNCHANGED queryVars
  /\ UNCHANGED fit2Vars

\* the cells of the closed-form fit
Next ==
  \/ BuildXY
  \/ Gram
  \/ Invert
  \/ XtY
  \/ Theta
  \/ Rerun

Spec == Init /\ [][Next]_vars

\* the notebook run to its end: the closed-form fit, then the sklearn cells
NextNotebook ==
  \/ BuildXY
  \/ Gram
  \/ Invert
  \/ XtY
  \/ Theta
  \/ Rerun
  \/ SkFit
  \/ Predict

SpecNotebook == Init /\ [][NextNotebook]_vars

\* ------------------------------------------------------ the 311 notebook
\* the name of column j: j letters
ColName(j) == [m \in 1..j |-> "k"]

\* the values a field of a data line takes: empty, or one letter
FieldValues == { << >>, << "a" >>, << "b" >> }

\* the fields of a line joined by tabs, from field k on
RECURSIVE JoinTab(_, _)
JoinTab(fields, k) ==
  IF k > Len(fields) THEN << >>
  ELSE IF k = Len(fields) THEN fields[k]
  ELSE fields[k] \o << TAB >> \o JoinTab(fields, k + 1)

\* the name of the column of the request numbers, written as one symbol
UniqueKey == << "Unique Key" >>

\* the names of k columns, the u-th of them 'Unique Key'
HeaderNames(k, u) == [j \in 1..k |-> IF j = u THEN UniqueKey ELSE ColName(j)]

\* the text of a file: a header of column names, then the rows of a table
FileOf(names, table) ==
  << JoinTab(names, 1) \o << NL >> >>
    \o [r \in 1..Len(table) |-> JoinTab(table[r], 1) \o << NL >>]

\* the tables of up to MaxRows rows of k fields
Tables(k) == UNION { [1..r -> [1..k -> FieldValues]] : r \in 0..MaxRows }

InitLoad ==
  /\ \E k \in 1..MaxCols : \E u \in 1..k : \E table \in Tables(k) :
       lines = FileOf(HeaderNames(k, u), table)
  /\ lineno = 0 /\ header = None /\ data = None
  /\ x = None /\ y = None
  /\ X = None /\ A = None /\ Ainv = None /\ b = None /\ theta = None
  /\ pc = "data"
  /\ coef_ = None /\ intercept_ = None /\ mpc = "new"
  /\ x_new = None /\ y_pred = None
  /\ QueryIdle
  /\ Fit2Idle

\* the first line: header = line; data.setdefault(key, list()) for each key
ReadHeader ==
  /\ lineno = 0
  /\ Len(lines) > 0
  /\ header' = Split(Strip(lines[1]))
  /\ data' = [key \in { header'[j] : j \in 1..Len(header') } |-> << >>]
  /\ lineno' = 1
  /\ UNCHANGED << lines, x, y >>
  /\ UNCHANGED fitVars
  /\ UNCHANGED skVars
  /\ UNCHANGED queryVars
  /\ UNCHANGED fit2Vars

\* a later line: data[key].append(value) for key, value in zip(header, line)
ReadLine ==
  /\ lineno >= 1
  /\ lineno < Len(lines)
  /\ data' = AppendZip(data, header, Split(Strip(lines[lineno + 1])), 1)
  /\ lineno' = lineno + 1
  /\ UNCHANGED << lines, header, x, y >>
  /\ UNCHANGED fitVars
  /\ UNCHANGED skVars
  /\ UNCHANGED queryVars
  /\ UNCHANGED fit2Vars

\* len(data['Unique Key']), the number the count cell prints
RequestCount == Len(data[UniqueKey])

NextLoad ==
  \/ ReadHeader
  \/ ReadLine

SpecLoad == InitLoad /\ [][NextLoad]_vars

\* ------------------------------------------- the questions about the data
\* the names of the columns the question cells read, each one symbol
CreatedDate == << "Created Date" >>
ClosedDate == << "Closed Date" >>
Status == << "Status" >>
ComplaintType == << "Complaint Type" >>

\* a calendar date
Date(m, d, yr) == [month |-> m, day |-> d, year |-> yr]

\* the days on which the requests of a file were created, and were closed
CreatedDates == { Date(1, 2, 2021), Date(1, 9, 2021), Date(2, 1, 2021) }
ClosedDates == { Date(1, 2, 2021), Date(1, 9, 2021), Date(1, 1, 1900) }

TwoDigits(n) == << DigitChars[(n \div 10) + 1], DigitChars[(n % 10) + 1] >>
FourDigits(n) == TwoDigits(n \div 100) \o TwoDigits(n % 100)

\* a date as the file writes it: '01/09/2021 12:00:00 AM'
Timestamp(d) ==
  TwoDigits(d.month) \o << "/" >> \o TwoDigits(d.day) \o << "/" >>
    \o FourDigits(d.year)
    \o << " ", "1", "2", ":", "0", "0", ":", "0", "0", " ", "A", "M" >>

\* the values of 'Status'
Closed == << "C", "l", "o", "s", "e", "d" >>
Pending == << "P", "e", "n", "d", "i", "n", "g" >>

\* the requests of a file: 'Closed Date' is empty for some
Requests ==
  [ created : { Timestamp(d) : d \in CreatedDates },
    closed : { << >> } \cup { Timestamp(d) : d \in ClosedDates },
    status : { Closed, Pending } ]

\* the dictionary the loading cell builds from a file of the requests t
DataOf(t) ==
  [c \in { CreatedDate, ClosedDate, Status } |->
     [r \in 1..Len(t) |->
        IF c = CreatedDate THEN t[r].created
        ELSE IF c = ClosedDate THEN t[r].closed
        ELSE t[r].status]]

\* d[key] = val on a dict kept as its (key, value) pairs in insertion order
DictSet(d, key, val) ==
  IF \E p \in 1..Len(d) : d[p][1] = key
    THEN [p \in 1..Len(d) |-> IF d[p][1] = key THEN << key, val >> ELSE d[p]]
    ELSE Append(d, << key, val >>)

\* date, time, am_pm = timestamp.split(); month, day, year = date.split('/')
\* raise ValueError unless there are three pieces each time
UnpacksDate(ts) ==
  /\ Len(SplitWs(ts)) = 3
  /\ Len(SplitOn(SplitWs(ts)[1], "/")) = 3

\* int(day) of the date of a timestamp
DayOf(ts) == IntOf(SplitOn(SplitWs(ts)[1], "/")[2])

\* month, open_day, year = open_date.split('/'), open_date being the whole
\* timestamp
UnpacksOpenDate(ts) == Len(SplitOn(ts, "/")) = 3

\* int(open_day)
OpenDayOf(ts) == IntOf(SplitOn(ts, "/")[2])

\* int(close_day) - int(open_day) of row r (r = i + 1)
DayDiff(r) == DayOf(data[ClosedDate][r]) - OpenDayOf(data[CreatedDate][r])

InitQueries ==
  /\ \E n \in 0..MaxRows : \E t \in [1..n -> Requests] : data = DataOf(t)
  /\ header = << CreatedDate, ClosedDate, Status >>
  /\ lines = None /\ lineno = 0
  /\ x = None /\ y = None
  /\ X = None /\ A = None /\ Ainv = None /\ b = None /\ theta = None
  /\ pc = "data"
  /\ coef_ = None /\ intercept_ = None /\ mpc = "new"
  /\ x_new = None /\ y_pred = None
  /\ QueryIdle
  /\ Fit2Idle

\* last_day = 0
LastDayStart ==
  /\ qpc = "idle"
  /\ qpc' = "last_day"
  /\ last_day' = 0
  /\ idx' = 0
  /\ UNCHANGED << complaint_counts, top_complaints, printed, days_open,
                  weird_indexes >>
  /\ UNCHANGED << x, y >>
  /\ UNCHANGED fitVars
  /\ UNCHANGED skVars
  /\ UNCHANGED loadVars
  /\ UNCHANGED fit2Vars

\* a turn that keeps the day of the row it reads, higher or not
LastDayStepKeepsLatest ==
  /\ qpc = "last_day"
  /\ idx < Len(data[CreatedDate])
  /\ last_day' = DayOf(data[CreatedDate][idx + 1])
  /\ idx' = idx + 1
  /\ qpc' = qpc
  /\ UNCHANGED << complaint_counts, top_complaints, printed, days_open,
                  weird_indexes >>
  /\ UNCHANGED << x, y >>
  /\ UNCHANGED fitVars
  /\ UNCHANGED skVars
  /\ UNCHANGED loadVars
  /\ UNCHANGED fit2Vars

\* one turn of: for timestamp in data['Created Date']
LastDayStep ==
  /\ qpc = "last_day"
  /\ idx < Len(data[CreatedDate])
  /\ LET timestamp == data[CreatedDate][idx + 1]
     IN  IF UnpacksDate(timestamp)
           THEN /\ last_day' = IF DayOf(timestamp) > last_day
                                 THEN DayOf(timestamp)
                                 ELSE last_day
                /\ idx' = idx + 1
                /\ qpc' = qpc
           ELSE /\ qpc' = "ValueError"
                /\ UNCHANGED << last_day, idx >>
  /\ UNCHANGED << complaint_counts, top_complaints, printed, days_open,
                  weird_indexes >>
  /\ UNCHANGED << x, y >>
  /\ UNCHANGED fitVars
  /\ UNCHANGED skVars
  /\ UNCHANGED loadVars
  /\ UNCHANGED fit2Vars

\* days_open = list()
DaysOpenStart ==
  /\ qpc = "last_day"
  /\ idx = Len(data[CreatedDate])
  /\ qpc' = "days_open"
  /\ days_open' = << >>
  /\ idx' = 0
  /\ UNCHANGED << last_day, complaint_counts, top_complaints, printed,
                  weird_indexes >>
  /\ UNCHANGED << x, y >>
  /\ UNCHANGED fitVars
  /\ UNCHANGED skVars
  /\ UNCHANGED loadVars
  /\ UNCHANGED fit2Vars

\* one turn of: for i, timestamp in enumerate(data['Closed Date'])
DaysOpenStep ==
  /\ qpc = "days_open"
  /\ idx < Len(data[ClosedDate])
  /\ LET timestamp == data[ClosedDate][idx + 1]
     IN  IF timestamp # << >>
           THEN IF UnpacksDate(timestamp)
                     /\ UnpacksOpenDate(data[CreatedDate][idx + 1])
                  THEN /\ days_open' = Append(days_open, DayDiff(idx + 1))
                       /\ idx' = idx + 1
                       /\ qpc' = qpc
                  ELSE /\ qpc' = "ValueError"
                       /\ UNCHANGED << days_open, idx >>
           ELSE /\ idx' = idx + 1
                /\ UNCHANGED << days_open, qpc >>
  /\ UNCHANGED << last_day, complaint_counts, top_complaints, printed,
                  weird_indexes >>
  /\ UNCHANGED << x, y >>
  /\ UNCHANGED fitVars
  /\ UNCHANGED skVars
  /\ UNCHANGED loadVars
  /\ UNCHANGED fit2Vars

\* weird_indexes = dict()
WeirdStart ==
  /\ qpc = "days_open"
  /\ idx = Len(data[ClosedDate])
  /\ qpc' = "weird"
  /\ weird_indexes' = << >>
  /\ idx' = 0
  /\ UNCHANGED << last_day, complaint_counts, top_complaints, printed,
                  days_open >>
  /\ UNCHANGED << x, y >>
  /\ UNCHANGED fitVars
  /\ UNCHANGED skVars
  /\ UNCHANGED loadVars
  /\ UNCHANGED fit2Vars

\* one turn of the loop of the weird_indexes cell
WeirdStep ==
  /\ qpc = "weird"
  /\ idx < Len(data[ClosedDate])
  /\ LET timestamp == data[ClosedDate][idx + 1]
     IN  IF timestamp # << >>
           THEN IF UnpacksDate(timestamp)
                     /\ UnpacksOpenDate(data[CreatedDate][idx + 1])
                  THEN /\ weird_indexes' =
                            IF DayDiff(idx + 1) < 0
                              THEN DictSet(weird_indexes, idx, DayDiff(idx + 1))
                              ELSE weird_indexes
                       /\ idx' = idx + 1
                       /\ qpc' = qpc
                  ELSE /\ qpc' = "ValueError"
                       /\ UNCHANGED << weird_indexes, idx >>
           ELSE /\ idx' = idx + 1
                /\ UNCHANGED << weird_indexes, qpc >>
  /\ UNCHANGED << last_day, complaint_counts, top_complaints, printed,
                  days_open >>
  /\ UNCHANGED << x, y >>
  /\ UNCHANGED fitVars
  /\ UNCHANGED skVars
  /\ UNCHANGED loadVars
  /\ UNCHANGED fit2Vars

\* len(weird_indexes), the number the cell prints
WeirdCount == Len(weird_indexes)

\* TAKE 2: days_open = list()
Take2Start ==
  /\ qpc = "weird"
  /\ idx = Len(data[ClosedDate])
  /\ qpc' = "take2"
  /\ days_open' = << >>
  /\ idx' = 0
  /\ UNCHANGED << last_day, complaint_counts, top_complaints, printed,
                  weird_indexes >>
  /\ UNCHANGED << x, y >>
  /\ UNCHANGED fitVars
  /\ UNCHANGED skVars
  /\ UNCHANGED loadVars
  /\ UNCHANGED fit2Vars

\* a step of take 2 that does not look at the status
Take2StepAnyStatus ==
  /\ qpc = "take2"
  /\ idx < Len(data[Status])
  /\ LET close_timestamp == data[ClosedDate][idx + 1]
     IN  /\ days_open' = IF close_timestamp # << >>
                            THEN Append(days_open, DayDiff(idx + 1))
                            ELSE days_open
         /\ idx' = idx + 1
         /\ qpc' = qpc
  /\ UNCHANGED << last_day, complaint_counts, top_complaints, printed,
                  weird_indexes >>
  /\ UNCHANGED << x, y >>
  /\ UNCHANGED fitVars
  /\ UNCHANGED skVars
  /\ UNCHANGED loadVars
  /\ UNCHANGED fit2Vars

\* one turn of: for i, status in enumerate(data['Status'])
Take2Step ==
  /\ qpc = "take2"
  /\ idx < Len(data[Status])
  /\ LET status == data[Status][idx + 1]
         close_timestamp == data[ClosedDate][idx + 1]
     IN  IF status = Closed /\ close_timestamp # << >>
           THEN IF UnpacksDate(close_timestamp)
                     /\ UnpacksOpenDate(data[CreatedDate][idx + 1])
                  THEN /\ days_open' = Append(days_open, DayDiff(idx + 1))
                       /\ idx' = idx + 1
                       /\ qpc' = qpc
                  ELSE /\ qpc' = "ValueError"
                       /\ UNCHANGED << days_open, idx >>
           ELSE /\ idx' = idx + 1
                /\ UNCHANGED << days_open, qpc >>
  /\ UNCHANGED << last_day, complaint_counts, top_complaints, printed,
                  weird_indexes >>
  /\ UNCHANGED << x, y >>
  /\ UNCHANGED fitVars
  /\ UNCHANGED skVars
  /\ UNCHANGED loadVars
  /\ UNCHANGED fit2Vars

\* the cells about the dates, in the order of the notebook
NextQueries ==
  \/ LastDayStart
  \/ LastDayStep
  \/ DaysOpenStart
  \/ DaysOpenStep
  \/ WeirdStart
  \/ WeirdStep
  \/ Take2Start
  \/ Take2Step

SpecQueries == InitQueries /\ [][NextQueries]_vars

\* ------------------------------------------------- the complaint types
\* how many types the top-complaints cell prints (if i < 5)
TopN == 5

\* the name of the j-th complaint type of a file
ComplaintName(j) == << "T" >> \o TwoDigits(j)

\* the highest entry of a sequence of naturals (0 if it is empty)
MaxOf(s) == IF s = << >> THEN 0 ELSE CHOOSE m \in { s[p] : p \in 1..Len(s) } :
                                        \A p \in 1..Len(s) : s[p] <= m

\* the columns of n complaints: the types are numbered in the order in which
\* they first occur (any other file is one of these with its types renamed)
RECURSIVE ComplaintColumns(_)
ComplaintColumns(n) ==
  IF n = 0 THEN { << >> }
  ELSE UNION { { Append(c, j) : j \in 1..(MaxOf(c) + 1) } :
                 c \in ComplaintColumns(n - 1) }

\* d.setdefault(key, val) on a dict kept as its pairs in insertion order
DictSetDefault(d, key, val) ==
  IF \E p \in 1..Len(d) : d[p][1] = key THEN d ELSE Append(d, << key, val >>)

\* d[key], for a key of d
DictGet(d, key) == d[CHOOSE p \in 1..Len(d) : d[p][1] = key][2]

\* a count that starts again at 1
CountComplaintResets(d, complaint) ==
  DictSet(DictSetDefault(d, complaint, 0), complaint, 1)

\* complaint_counts.setdefault(complaint, 0); complaint_counts[complaint] += 1
CountComplaint(d, complaint) ==
  LET d0 == DictSetDefault(d, complaint, 0)
  IN  DictSet(d0, complaint, DictGet(d0, complaint) + 1)

\* the place of the pair p in a list sorted by count, lowest first, behind
\* the pairs of the same count
InsertAscending(p, s) ==
  LET n == Cardinality({ q \in 1..Len(s) : s[q][2] <= p[2] })
  IN  SubSeq(s, 1, n) \o << p >> \o SubSeq(s, n + 1, Len(s))

\* the place of the pair p in a list sorted by count, highest first: behind
\* the pairs of the same count (the sort is stable)
InsertDescending(p, s) ==
  LET n == Cardinality({ q \in 1..Len(s) : s[q][2] >= p[2] })
  IN  SubSeq(s, 1, n) \o << p >> \o SubSeq(s, n + 1, Len(s))

\* a sort that leaves out reverse=True
RECURSIVE SortedAscending(_)
SortedAscending(items) ==
  IF items = << >> THEN << >>
  ELSE InsertAscending(items[Len(items)],
                       SortedAscending(SubSeq(items, 1, Len(items) - 1)))

\* sorted(items, key=lambda item: item[1], reverse=True)
RECURSIVE SortedByCount(_)
SortedByCount(items) ==
  IF items = << >> THEN << >>
  ELSE InsertDescending(items[Len(items)],
                        SortedByCount(SubSeq(items, 1, Len(items) - 1)))

InitComplaints ==
  /\ \E n \in 0..MaxComplaints : \E c \in ComplaintColumns(n) :
       data = [col \in { ComplaintType } |->
                 [r \in 1..n |-> ComplaintName(c[r])]]
  /\ header = << ComplaintType >>
  /\ lines = None /\ lineno = 0
  /\ x = None /\ y = None
  /\ X = None /\ A = None /\ Ainv = None /\ b = None /\ theta = None
  /\ pc = "data"
  /\ coef_ = None /\ intercept_ = None /\ mpc = "new"
  /\ x_new = None /\ y_pred = None
  /\ QueryIdle
  /\ Fit2Idle

\* complaint_counts = dict()
CountStart ==
  /\ qpc = "idle"
  /\ qpc' = "counting"
  /\ complaint_counts' = << >>
  /\ idx' = 0
  /\ UNCHANGED << last_day, top_complaints, printed, days_open, weird_indexes >>
  /\ UNCHANGED << x, y >>
  /\ UNCHANGED fitVars
  /\ UNCHANGED skVars
  /\ UNCHANGED loadVars
  /\ UNCHANGED fit2Vars

\* one turn of: for complaint in data['Complaint Type']
CountStep ==
  /\ qpc = "counting"
  /\ idx < Len(data[ComplaintType])
  /\ complaint_counts' =
       CountComplaint(complaint_counts, data[ComplaintType][idx + 1])
  /\ idx' = idx + 1
  /\ UNCHANGED << qpc, last_day, top_complaints, printed, days_open,
                  weird_indexes >>
  /\ UNCHANGED << x, y >>
  /\ UNCHANGED fitVars
  /\ UNCHANGED skVars
  /\ UNCHANGED loadVars
  /\ UNCHANGED fit2Vars

\* top_complaints = dict(... sorted(complaint_counts.items(), ...));
\* print('Top complaint types:')
SortComplaints ==
  /\ qpc = "counting"
  /\ idx = Len(data[ComplaintType])
  /\ top_complaints' = SortedByCount(complaint_counts)
  /\ printed' = << >>
  /\ idx' = 0
  /\ qpc' = "printing"
  /\ UNCHANGED << last_day, complaint_counts, days_open, weird_indexes >>
  /\ UNCHANGED << x, y >>
  /\ UNCHANGED fitVars
  /\ UNCHANGED skVars
  /\ UNCHANGED loadVars
  /\ UNCHANGED fit2Vars

\* one turn of: for i, (key, val) in enumerate(top_complaints.items())
PrintStep ==
  /\ qpc = "printing"
  /\ idx < Len(top_complaints)
  /\ printed' = IF idx < TopN
                  THEN Append(printed, top_complaints[idx + 1])
                  ELSE printed
  /\ idx' = idx + 1
  /\ UNCHANGED << qpc, last_day, complaint_counts, top_complaints, days_open,
                  weird_indexes >>
  /\ UNCHANGED << x, y >>
  /\ UNCHANGED fitVars
  /\ UNCHANGED skVars
  /\ UNCHANGED loadVars
  /\ UNCHANGED fit2Vars

NextComplaints ==
  \/ CountStart
  \/ CountStep
  \/ SortComplaints
  \/ PrintStep

SpecComplaints == InitComplaints /\ [][NextComplaints]_vars

\* ------------------------------------------------------ two fits at once
\* the values of the inputs and targets of the two fits
InputValues2 == { 0, 1 }

\* the inputs of a fit: a vector x and a vector y of the same length
Inputs2 ==
  UNION { [xs : [1..n -> InputValues2], ys : [1..n -> InputValues2]] :
            n \in 1..MaxN2 }

\* the value the second evaluation assigns to its theta
ThetaValue2 == MatMulR(Ainv2, b2)

\* both evaluations have their X and y built (by the X cell) and are about to
\* evaluate the closed-form expression
InitConcurrent ==
  /\ \E in1 \in Inputs2 : \E in2 \in Inputs2 :
       /\ x = in1.xs /\ X = Augment(in1.xs) /\ y = ExpandDims(in1.ys)
       /\ x2 = in2.xs /\ X2 = Augment(in2.xs) /\ y2 = ExpandDims(in2.ys)
  /\ A = None /\ Ainv = None /\ b = None /\ theta = None
  /\ pc = "built"
  /\ A2 = None /\ Ainv2 = None /\ b2 = None /\ theta2 = None
  /\ pc2 = "built"
  /\ coef_ = None /\ intercept_ = None /\ mpc = "new"
  /\ x_new = None /\ y_pred = None
  /\ lines = None /\ lineno = 0 /\ header = None /\ data = None
  /\ QueryIdle

\* a product X2.T X2 that is also written where the first fit keeps its own
Gram2SharedBuffer ==
  /\ pc2 = "built"
  /\ A2' = MatMul(Transpose(X2), X2)
  /\ A' = MatMul(Transpose(X2), X2)
  /\ pc2' = "gram"
  /\ UNCHANGED << x2, y2, X2, Ainv2, b2, theta2 >>
  /\ UNCHANGED << x, y, X, Ainv, b, theta, pc >>
  /\ UNCHANGED skVars
  /\ UNCHANGED loadVars
  /\ UNCHANGED queryVars

\* np.matmul(X.T, X) of the second fit
Gram2 ==
  /\ pc2 = "built"
  /\ A2' = MatMul(Transpose(X2), X2)
  /\ pc2' = "gram"
  /\ UNCHANGED << x2, y2, X2, Ainv2, b2, theta2 >>
  /\ UNCHANGED << x, y >>
  /\ UNCHANGED fitVars
  /\ UNCHANGED skVars
  /\ UNCHANGED loadVars
  /\ UNCHANGED queryVars

\* np.linalg.inv(...) of the second fit
Invert2 ==
  /\ pc2 = "gram"
  /\ IF Singular(A2)
       THEN pc2' = "LinAlgError" /\ Ainv2' = Ainv2
       ELSE pc2' = "inv" /\ Ainv2' = Inv(A2)
  /\ UNCHANGED << x2, y2, X2, A2, b2, theta2 >>
  /\ UNCHANGED << x, y >>
  /\ UNCHANGED fitVars
  /\ UNCHANGED skVars
  /\ UNCHANGED loadVars
  /\ UNCHANGED queryVars

\* np.matmul(X.T, y) of the second fit
XtY2 ==
  /\ pc2 = "inv"
  /\ IF MatMulDefined(Transpose(X2), y2)
       THEN pc2' = "xty" /\ b2' = MatMul(Transpose(X2), y2)
       ELSE pc2' = "ValueError" /\ b2' = b2
  /\ UNCHANGED << x2, y2, X2, A2, Ainv2, theta2 >>
  /\ UNCHANGED << x, y >>
  /\ UNCHANGED fitVars
  /\ UNCHANGED skVars
  /\ UNCHANGED loadVars
  /\ UNCHANGED queryVars

\* theta = np.matmul(..., ...) of the second fit
Theta2 ==
  /\ pc2 = "xty"
  /\ theta2' = ThetaValue2
  /\ pc2' = "done"
  /\ UNCHANGED << x2, y2, X2, A2, Ainv2, b2 >>
  /\ UNCHANGED << x, y >>
  /\ UNCHANGED fitVars
  /\ UNCHANGED skVars
  /\ UNCHANGED loadVars
  /\ UNCHANGED queryVars

\* the steps of the two closed-form fits and the LinearRegression fit, in
\* any order
NextConcurrent ==
  \/ Gram
  \/ Invert
  \/ XtY
  \/ Theta
  \/ Gram2
  \/ Invert2
  \/ XtY2
  \/ Theta2
  \/ SkFit

SpecConcurrent == InitConcurrent /\ [][NextConcurrent]_vars

\* ============================================================ properties

\* the column of the rationals m and c
Column(m, c) == << << m >>, << c >> >>

\* at least two of the inputs differ
TwoDistinct == \E i, j \in 1..Len(x) : x[i] # x[j]

\* the slopes a line through points of the input grid can have
Slopes == { Rat(p, q) : p \in (-MaxY)..MaxY, q \in 1..MaxX }

\* the targets are m * x_i + c, without noise (y is a column here)
Noiseless(m, c) ==
  /\ Len(y) = Len(x)
  /\ \A i \in 1..Len(x) : RInt(y[i][1]) = RAdd(RMul(m, RInt(x[i])), c)

\* C1: on noiseless data y_i = m*x_i + c with at least two distinct inputs,
\* the closed-form cell raises nothing and the theta it assigns is [m, c],
\* slope first and intercept last (the bias column is the last of X).  A
\* line through the data fixes its intercept, c = y_1 - m*x_1, so the
\* lines are enumerated by their slope.
C1_ExactRecovery ==
  (pc \in {"LinAlgError", "ValueError"} \/ theta # None) =>
    \A m \in Slopes :
      LET c == RSub(RInt(y[1][1]), RMul(m, RInt(x[1])))
      IN  (TwoDistinct /\ Noiseless(m, c)) =>
            /\ pc \notin {"LinAlgError", "ValueError"}
            /\ theta # None => theta = Column(m, c)

\* a fit of three noiseless points of slope 1 and intercept 0
C1_Witness ==
  /\ pc = "done"
  /\ Len(x) = 3
  /\ TwoDistinct
  /\ Noiseless(RInt(1), RInt(0))
  /\ theta = Column(RInt(1), RInt(0))

\* C2: the theta the cell assigns solves the normal equations
\* (X^T X) theta = X^T y, whose matrix is invertible (so the solution is
\* unique), and it is computed as A = X^T X, inverse of A, b = X^T y and
\* then A^-1 b.
C2_NormalEquations ==
  pc = "done" =>
    /\ A = MatMul(Transpose(X), X)
    /\ Det(A) # 0
    /\ MatMulIR(A, Ainv) = AsRat(<< << 1, 0 >>, << 0, 1 >> >>)
    /\ b = MatMul(Transpose(X), y)
    /\ theta = MatMulR(Ainv, b)
    /\ MatMulIR(MatMul(Transpose(X), X), theta) = AsRat(MatMul(Transpose(X), y))

\* a finished fit of three points that are on no line
C2_Witness ==
  /\ pc = "done"
  /\ Len(x) = 3
  /\ \A m \in Slopes :
       ~Noiseless(m, RSub(RInt(y[1][1]), RMul(m, RInt(x[1]))))

C4_ShapeMismatchRejected ==
  (X # None /\ Len(y) # Len(X)) =>
    /\ pc \in {"built", "gram", "inv", "ValueError"}
    /\ theta = None

\* the perturbations of theta that are tried
Deltas == { Rat(-1, 2), RInt(0), Rat(1, 2) }

\* the square of a rational
Sq(r) == RMul(r, r)

\* the sum of squared residuals ||M t - yy||^2
SSR(M, t, yy) ==
  RSumSeq([i \in 1..Rows(M) |->
    Sq(RSub(RSumSeq([k \in 1..Cols(M) |-> RMul(RInt(M[i][k]), t[k][1])]),
            RInt(yy[i][1])))])

\* C6: no perturbation of the theta the cell returns lowers the sum of
\* squared residuals.
C6_Optimality ==
  pc = "done" =>
    LET best == SSR(X, theta, y)
    IN  \A d1, d2 \in Deltas :
          RLeq(best,
               SSR(X, Column(RAdd(theta[1][1], d1), RAdd(theta[2][1], d2)), y))

\* a returned theta whose residuals are not all zero
C6_Witness ==
  /\ pc = "done"
  /\ SSR(X, theta, y) # RInt(0)

\* C7: the residual X theta - y of the returned theta is orthogonal to
\* every column of X.
C7_Orthogonality ==
  pc = "done" =>
    LET r == MatMulIR(X, theta)
    IN  \A j \in 1..Cols(X) :
          RSumSeq([i \in 1..Rows(X) |->
            RMul(RInt(X[i][j]), RSub(r[i][1], RInt(y[i][1])))]) = RInt(0)

\* a returned theta with a residual that is not zero in some row
C7_Witness ==
  /\ pc = "done"
  /\ \E i \in 1..Rows(X) : MatMulIR(X, theta)[i][1] # RInt(y[i][1])

\* the permutations of 1..n
Perms(n) == Permutations(1..n)

\* the rows of M in the order f
Permute(M, f) == Array([i \in 1..Len(M) |-> M[f[i]]])

\* C8: the closed-form expression gives the returned theta again when the
\* rows of X and of y are put in any other order, the same for both.
C8_PermutationInvariance ==
  pc = "done" =>
    \A f \in Perms(Len(X)) :
      NormalEquations(Permute(X, f), Permute(y, f)) = theta

\* a returned theta for rows that are not all the same, so that some
\* permutation changes X and y
C8_Witness ==
  /\ pc = "done"
  /\ Len(X) = 3
  /\ \E f \in Perms(Len(X)) : Permute(X, f) # X /\ Permute(y, f) # y

\* a fit stopped by the shape error of np.matmul(X.T, y)
C4_Witness ==
  /\ pc = "ValueError"
  /\ Len(y) # Len(X)

Chomp(s) == IF s # << >> /\ s[Len(s)] = NL THEN SubSeq(s, 1, Len(s) - 1) ELSE s

\* the fields of data line r of the file: what stands between its tabs
FieldsOfLine(r) == Split(Chomp(lines[r + 1]))

\* C5: once the header is read, and after every data line processed, every
\* column list has one entry per data line processed, and entry r of the
\* list of column j is field j of data line r, empty fields included.
C5_RowAlignment ==
  lineno >= 1 =>
    \A j \in 1..Len(header) :
      /\ Len(data[header[j]]) = lineno - 1
      /\ \A r \in 1..(lineno - 1) : data[header[j]][r] = FieldsOfLine(r)[j]

\* a file of two columns loaded to its end, one of its lines ending in an
\* empty field
C5_Witness ==
  /\ lineno = Len(lines)
  /\ lineno >= 2
  /\ Len(header) = 2
  /\ \E r \in 1..(lineno - 1) : FieldsOfLine(r)[2] = << >>

\* C11: the evaluation of the theta cell leaves X and y (and the inputs x
\* they were built from) as they were, changes nothing else than theta,
\* which it assigns at its end only, and the theta it assigns is the
\* closed-form expression of X and y alone, whatever theta and whatever
\* temporaries an earlier run left.
C11_NoSideEffects ==
  [][ /\ pc \in {"built", "gram", "inv", "xty"} =>
           ( /\ X' = X /\ y' = y /\ x' = x
             /\ skVars' = skVars
             /\ loadVars' = loadVars
             /\ queryVars' = queryVars
             /\ fit2Vars' = fit2Vars )
      /\ (pc \in {"built", "gram", "inv", "xty"} /\ pc' # "done") =>
           theta' = theta
      /\ (pc = "xty" /\ pc' = "done") => theta' = NormalEquations(X, y) ]_vars

\* the cell is run a second time on three points and has formed the Gram
\* matrix, the theta of the first run still being there
C11_Witness ==
  /\ pc = "gram"
  /\ theta # None
  /\ Len(x) = 3

\* C18: when y has not as many rows as X, the error is raised before any
\* numeric work: the Gram matrix is never formed, nothing is inverted, and
\* the error is never the one of a singular matrix.
C18_ShapeCheckedFirst ==
  (X # None /\ Len(y) # Len(X)) =>
    /\ A = None /\ Ainv = None
    /\ pc \in {"built", "ValueError"}

\* an input that is both row-mismatched and singular, stopped by the
\* inversion
C18_Witness ==
  /\ pc = "LinAlgError"
  /\ Len(y) # Len(X)
  /\ A # None

\* C14: once the file is loaded, the number of requests the count cell
\* reports, len(data['Unique Key']), is the number of lines of the file
\* after the header.
C14_RequestCount ==
  (lineno >= 1 /\ lineno = Len(lines)) => RequestCount = Len(lines) - 1

\* a loaded file whose second column is 'Unique Key' and that has a line
\* ending in an empty field
C14_Witness ==
  /\ lineno = Len(lines)
  /\ lineno >= 2
  /\ Len(header) = 2
  /\ header[2] = UniqueKey
  /\ \E r \in 1..(lineno - 1) :
       FieldsOfLine(r)[1] # << >> /\ FieldsOfLine(r)[2] = << >>

\* the date a timestamp of the file stands for
DateOf(ts) == CHOOSE d \in CreatedDates \cup ClosedDates : Timestamp(d) = ts

LeapYear(yr) == yr % 4 = 0 /\ (yr % 100 # 0 \/ yr % 400 = 0)

\* the days of the year yr before its month m
DaysBeforeMonth(m, yr) ==
  << 0, 31, 59, 90, 120, 151, 181, 212, 243, 273, 304, 334 >>[m]
    + (IF m > 2 /\ LeapYear(yr) THEN 1 ELSE 0)

\* the number of a day in the calendar: the days from 01/01/0001 to it
CalendarDay(d) ==
  365 * (d.year - 1) + ((d.year - 1) \div 4) - ((d.year - 1) \div 100)
    + ((d.year - 1) \div 400) + DaysBeforeMonth(d.month, d.year) + d.day

\* the calendar days from the creation of the request of row r to its closing
CalendarDaysOpen(r) ==
  CalendarDay(DateOf(data[ClosedDate][r]))
    - CalendarDay(DateOf(data[CreatedDate][r]))

\* the first n rows that have a closed date, in their order
ClosedRows(n) ==
  SelectSeq([r \in 1..n |-> r], LAMBDA r : data[ClosedDate][r] # << >>)

\* C12: while and after the days_open cell runs, days_open has one entry
\* per request processed whose 'Closed Date' is not empty, in their order,
\* and the entry is the number of calendar days from the creation of the
\* request to its closing.
C12_DaysOpen ==
  qpc = "days_open" =>
    LET rows == ClosedRows(idx)
    IN  /\ Len(days_open) = Len(rows)
        /\ \A j \in 1..Len(rows) : days_open[j] = CalendarDaysOpen(rows[j])

\* the cell has processed a request that was closed in another year than
\* it was created
C12_Witness ==
  /\ qpc = "days_open"
  /\ idx = Len(data[ClosedDate])
  /\ \E r \in 1..idx :
       /\ data[ClosedDate][r] # << >>
       /\ DateOf(data[ClosedDate][r]).year # DateOf(data[CreatedDate][r]).year

\* the request of row r was closed before it was opened
ClosedBeforeOpened(r) ==
  /\ data[ClosedDate][r] # << >>
  /\ CalendarDaysOpen(r) < 0

\* C13: while the weird_indexes cell runs, the index i of a request
\* processed is a key of weird_indexes if and only if the request has a
\* 'Closed Date' that is not empty and is earlier than its 'Created Date';
\* at the end, the count the cell prints is the number of such requests.
C13_WeirdIndexes ==
  qpc = "weird" =>
    /\ \A r \in 1..idx :
         (\E p \in 1..Len(weird_indexes) : weird_indexes[p][1] = r - 1)
           <=> ClosedBeforeOpened(r)
    /\ idx = Len(data[ClosedDate]) =>
         WeirdCount = Cardinality({ r \in 1..idx : ClosedBeforeOpened(r) })

\* the cell has processed a request closed in 1900 on the day of the month
\* it was created on or a later one
C13_Witness ==
  /\ qpc = "weird"
  /\ idx = Len(data[ClosedDate])
  /\ \E r \in 1..idx :
       /\ ClosedBeforeOpened(r)
       /\ DateOf(data[ClosedDate][r]).day >= DateOf(data[CreatedDate][r]).day

\* the highest day of the month among the first n values of 'Created Date'
MaxCreatedDay(n) ==
  CHOOSE m \in { DateOf(data[CreatedDate][r]).day : r \in 1..n } :
    \A r \in 1..n : DateOf(data[CreatedDate][r]).day <= m

\* all requests were created in the same month of the same year
SameMonthAndYear ==
  \A r, q \in 1..Len(data[CreatedDate]) :
    /\ DateOf(data[CreatedDate][r]).month = DateOf(data[CreatedDate][q]).month
    /\ DateOf(data[CreatedDate][r]).year = DateOf(data[CreatedDate][q]).year

\* C15: during the scan of 'Created Date', last_day is the highest day of
\* the month among the values processed so far and never decreases; after
\* the scan it is the highest day of the month of all values, and when all
\* requests were created in the same month and year that is the day of the
\* most recent creation.
C15_LastDay ==
  /\ [](( qpc = "last_day" /\ idx >= 1 ) => last_day = MaxCreatedDay(idx))
  /\ [](( qpc \in {"days_open", "weird", "take2"}
           /\ Len(data[CreatedDate]) >= 1 ) =>
           /\ last_day = MaxCreatedDay(Len(data[CreatedDate]))
           /\ SameMonthAndYear =>
                \E r \in 1..Len(data[CreatedDate]) :
                  /\ DateOf(data[CreatedDate][r]).day = last_day
                  /\ \A q \in 1..Len(data[CreatedDate]) :
                       CalendarDay(DateOf(data[CreatedDate][q]))
                         <= CalendarDay(DateOf(data[CreatedDate][r])))
  /\ [][ (qpc = "last_day" /\ qpc' = "last_day") => last_day' >= last_day ]_vars

\* the scan has come to its end over two requests created in the same
\* month, the later one first
C15_Witness ==
  /\ qpc = "last_day"
  /\ idx = 2
  /\ Len(data[CreatedDate]) = 2
  /\ SameMonthAndYear
  /\ DateOf(data[CreatedDate][1]).day > DateOf(data[CreatedDate][2]).day

\* the first n rows whose status is 'Closed' and that have a closed date
ClosedStatusRows(n) ==
  SelectSeq([r \in 1..n |-> r],
            LAMBDA r : data[Status][r] = Closed /\ data[ClosedDate][r] # << >>)

\* the list the first days_open cell builds over all rows
Take1List ==
  LET rows == ClosedRows(Len(data[ClosedDate]))
  IN  [j \in 1..Len(rows) |-> DayDiff(rows[j])]

\* how often v is an entry of the list l
Occurrences(l, v) == Cardinality({ j \in 1..Len(l) : l[j] = v })

\* C19: in take 2, a row contributes an entry to days_open if and only if
\* its 'Status' is exactly 'Closed' and its 'Closed Date' is not empty: the
\* list is the entries of these rows, in their order; rows of any other
\* status contribute nothing; and the list is a sub-multiset of the list
\* of take 1, which has an entry for every row with a closed date.
C19_Take2 ==
  /\ (qpc = "days_open" /\ idx = Len(data[ClosedDate])) =>
       days_open = Take1List
  /\ qpc = "take2" =>
       LET rows == ClosedStatusRows(idx)
       IN  /\ days_open = [j \in 1..Len(rows) |-> DayDiff(rows[j])]
           /\ \A j \in 1..Len(days_open) :
                Occurrences(days_open, days_open[j])
                  <= Occurrences(Take1List, days_open[j])

\* take 2 has processed two requests with a closed date, one of them
\* 'Closed' and the other 'Pending'
C19_Witness ==
  /\ qpc = "take2"
  /\ idx = 2
  /\ Len(data[Status]) = 2
  /\ data[ClosedDate][1] # << >> /\ data[ClosedDate][2] # << >>
  /\ data[Status][1] = Pending
  /\ data[Status][2] = Closed
  /\ Len(days_open) = 1

\* how often the type t occurs among the first n values of 'Complaint Type'
ComplaintOccurrences(t, n) ==
  Cardinality({ r \in 1..n : data[ComplaintType][r] = t })

\* the types among the first n values of 'Complaint Type'
ComplaintTypes(n) == { data[ComplaintType][r] : r \in 1..n }

\* the keys of a dict, and its pairs
Keys(d) == { d[p][1] : p \in 1..Len(d) }
Items(d) == { d[p] : p \in 1..Len(d) }

\* C20: after any number of values of 'Complaint Type' counted, the counts
\* of complaint_counts sum to that number, the keys are the types seen, each
\* once, the count of a key is the number of its occurrences so far, and no
\* count is 0; the sort into top_complaints keeps the keys and their counts.
C20_CountingInvariant ==
  /\ qpc = "counting" =>
       /\ SumSeq([p \in 1..Len(complaint_counts) |-> complaint_counts[p][2]])
            = idx
       /\ Keys(complaint_counts) = ComplaintTypes(idx)
       /\ Cardinality(Keys(complaint_counts)) = Len(complaint_counts)
       /\ \A p \in 1..Len(complaint_counts) :
            /\ complaint_counts[p][2]
                 = ComplaintOccurrences(complaint_counts[p][1], idx)
            /\ complaint_counts[p][2] # 0
  /\ qpc = "printing" =>
       /\ Len(top_complaints) = Len(complaint_counts)
       /\ Items(top_complaints) = Items(complaint_counts)

\* six complaints of three types counted, one type three times
C20_Witness ==
  /\ qpc = "counting"
  /\ idx = 6
  /\ Len(complaint_counts) = 3
  /\ \E p \in 1..3 : complaint_counts[p][2] = 3

\* the lower of two numbers
Min(m, n) == IF m <= n THEN m ELSE n

SingularDesign(M) == Det(MatMul(Transpose(M), M)) = 0

====
